---- MODULE Spec2Model ----
(***************************************************************************)
(* Model of irisc_asm.py: a two-pass assembler for a fixed-width 32-bit    *)
(* instruction set.  Text is modelled as sequences of one-character        *)
(* strings, Python integers as TLA+ integers, instruction words as sets of *)
(* bit positions (an instruction word does not fit TLC's signed 32-bit     *)
(* integers), dicts as functions, and a raised exception as a record       *)
(* [ok |-> FALSE, exc, msg].  A source is the list of its lines, as        *)
(* source.split("\n") returns it.  An ASCII character is the string of     *)
(* that character (the control characters 0x0b and 0x1c..0x1f stand in    *)
(* their literals as they are); a character outside ASCII is the string    *)
(* "U+" and its code point in four or more hexadecimal digits, since a     *)
(* module holds no character above 0xff.  The spaces and decimal digits    *)
(* outside ASCII are those of Unicode 14, which Python 3.11 carries.       *)
(***************************************************************************)
EXTENDS Integers, Sequences, FiniteSets, TLC

(***************************************************************************)
(* Python values the code relies on                                        *)
(***************************************************************************)
Ok(v) == [ok |-> TRUE, val |-> v]

Raise(e, m) == [ok |-> FALSE, exc |-> e, msg |-> m]

EmptyDict == [n \in {} |-> 0]

\* d[k] = v on a dict
DictSet(d, k, v) == [n \in (DOMAIN d) \cup {k} |-> IF n = k THEN v ELSE d[n]]

\* d.get(k, default)
DictGet(d, k, default) == IF k \in DOMAIN d THEN d[k] ELSE default

\* the whitespace of the C locale: what int() skips among ASCII
AsciiSpace == {" ", "\t", "\n", "\r", "\f", ""}

\* the whitespace outside ASCII
UnicodeSpace ==
    {"U+0085", "U+00A0", "U+1680", "U+2000", "U+2001", "U+2002", "U+2003",
     "U+2004", "U+2005", "U+2006", "U+2007", "U+2008", "U+2009", "U+200A",
     "U+2028", "U+2029", "U+202F", "U+205F", "U+3000"}

\* the characters str.strip() removes (str.isspace): the above and the
\* separators 0x1c..0x1f
Whitespace == AsciiSpace \cup {"", "", "", ""} \cup UnicodeSpace

\* str.lstrip / str.rstrip / str.strip with no argument
RECURSIVE lstrip(_)
lstrip(s) == IF s # <<>> /\ Head(s) \in Whitespace THEN lstrip(Tail(s)) ELSE s

RECURSIVE rstrip(_)
rstrip(s) ==
    IF s # <<>> /\ s[Len(s)] \in Whitespace THEN rstrip(SubSeq(s, 1, Len(s) - 1)) ELSE s

strip(s) == rstrip(lstrip(s))

\* index of the first occurrence of character c in s, 0 when there is none
RECURSIVE find(_, _, _)
find(s, c, k) == IF k > Len(s) THEN 0 ELSE IF s[k] = c THEN k ELSE find(s, c, k + 1)

\* s.split(c): every piece between separators, at least one piece
RECURSIVE split(_, _)
split(s, c) ==
    LET k == find(s, c, 1)
    IN  IF k = 0 THEN <<s>>
        ELSE <<SubSeq(s, 1, k - 1)>> \o split(SubSeq(s, k + 1, Len(s)), c)

\* s.split(c, 1): at most one split, at the first separator
split1(s, c) ==
    LET k == find(s, c, 1)
    IN  IF k = 0 THEN <<s>>
        ELSE <<SubSeq(s, 1, k - 1), SubSeq(s, k + 1, Len(s))>>

\* the Python str spelled by a sequence of characters (a dict key)
RECURSIVE str(_)
str(s) == IF s = <<>> THEN "" ELSE Head(s) \o str(Tail(s))

HexChars == <<"0", "1", "2", "3", "4", "5", "6", "7", "8", "9",
              "a", "b", "c", "d", "e", "f">>

\* the upper-case spellings of the digits 10..15
HexUpper == <<"A", "B", "C", "D", "E", "F">>

\* the decimal digits outside ASCII: DecimalDigits[k] holds the digits of
\* value k - 1
DecimalDigits ==
    <<
      {"U+0660", "U+06F0", "U+07C0", "U+0966", "U+09E6", "U+0A66", "U+0AE6",
       "U+0B66", "U+0BE6", "U+0C66", "U+0CE6", "U+0D66", "U+0DE6", "U+0E50",
       "U+0ED0", "U+0F20", "U+1040", "U+1090", "U+17E0", "U+1810", "U+1946",
       "U+19D0", "U+1A80", "U+1A90", "U+1B50", "U+1BB0", "U+1C40", "U+1C50",
       "U+A620", "U+A8D0", "U+A900", "U+A9D0", "U+A9F0", "U+AA50", "U+ABF0",
       "U+FF10", "U+104A0", "U+10D30", "U+11066", "U+110F0", "U+11136",
       "U+111D0", "U+112F0", "U+11450", "U+114D0", "U+11650", "U+116C0",
       "U+11730", "U+118E0", "U+11950", "U+11C50", "U+11D50", "U+11DA0",
       "U+16A60", "U+16AC0", "U+16B50", "U+1D7CE", "U+1D7D8", "U+1D7E2",
       "U+1D7EC", "U+1D7F6", "U+1E140", "U+1E2F0", "U+1E950", "U+1FBF0"},
      {"U+0661", "U+06F1", "U+07C1", "U+0967", "U+09E7", "U+0A67", "U+0AE7",
       "U+0B67", "U+0BE7", "U+0C67", "U+0CE7", "U+0D67", "U+0DE7", "U+0E51",
       "U+0ED1", "U+0F21", "U+1041", "U+1091", "U+17E1", "U+1811", "U+1947",
       "U+19D1", "U+1A81", "U+1A91", "U+1B51", "U+1BB1", "U+1C41", "U+1C51",
       "U+A621", "U+A8D1", "U+A901", "U+A9D1", "U+A9F1", "U+AA51", "U+ABF1",
       "U+FF11", "U+104A1", "U+10D31", "U+11067", "U+110F1", "U+11137",
       "U+111D1", "U+112F1", "U+11451", "U+114D1", "U+11651", "U+116C1",
       "U+11731", "U+118E1", "U+11951", "U+11C51", "U+11D51", "U+11DA1",
       "U+16A61", "U+16AC1", "U+16B51", "U+1D7CF", "U+1D7D9", "U+1D7E3",
       "U+1D7ED", "U+1D7F7", "U+1E141", "U+1E2F1", "U+1E951", "U+1FBF1"},
      {"U+0662", "U+06F2", "U+07C2", "U+0968", "U+09E8", "U+0A68", "U+0AE8",
       "U+0B68", "U+0BE8", "U+0C68", "U+0CE8", "U+0D68", "U+0DE8", "U+0E52",
       "U+0ED2", "U+0F22", "U+1042", "U+1092", "U+17E2", "U+1812", "U+1948",
       "U+19D2", "U+1A82", "U+1A92", "U+1B52", "U+1BB2", "U+1C42", "U+1C52",
       "U+A622", "U+A8D2", "U+A902", "U+A9D2", "U+A9F2", "U+AA52", "U+ABF2",
       "U+FF12", "U+104A2", "U+10D32", "U+11068", "U+110F2", "U+11138",
       "U+111D2", "U+112F2", "U+11452", "U+114D2", "U+11652", "U+116C2",
       "U+11732", "U+118E2", "U+11952", "U+11C52", "U+11D52", "U+11DA2",
       "U+16A62", "U+16AC2", "U+16B52", "U+1D7D0", "U+1D7DA", "U+1D7E4",
       "U+1D7EE", "U+1D7F8", "U+1E142", "U+1E2F2", "U+1E952", "U+1FBF2"},
      {"U+0663", "U+06F3", "U+07C3", "U+0969", "U+09E9", "U+0A69", "U+0AE9",
       "U+0B69", "U+0BE9", "U+0C69", "U+0CE9", "U+0D69", "U+0DE9", "U+0E53",
       "U+0ED3", "U+0F23", "U+1043", "U+1093", "U+17E3", "U+1813", "U+1949",
       "U+19D3", "U+1A83", "U+1A93", "U+1B53", "U+1BB3", "U+1C43", "U+1C53",
       "U+A623", "U+A8D3", "U+A903", "U+A9D3", "U+A9F3", "U+AA53", "U+ABF3",
       "U+FF13", "U+104A3", "U+10D33", "U+11069", "U+110F3", "U+11139",
       "U+111D3", "U+112F3", "U+11453", "U+114D3", "U+11653", "U+116C3",
       "U+11733", "U+118E3", "U+11953", "U+11C53", "U+11D53", "U+11DA3",
       "U+16A63", "U+16AC3", "U+16B53", "U+1D7D1", "U+1D7DB", "U+1D7E5",
       "U+1D7EF", "U+1D7F9", "U+1E143", "U+1E2F3", "U+1E953", "U+1FBF3"},
      {"U+0664", "U+06F4", "U+07C4", "U+096A", "U+09EA", "U+0A6A", "U+0AEA",
       "U+0B6A", "U+0BEA", "U+0C6A", "U+0CEA", "U+0D6A", "U+0DEA", "U+0E54",
       "U+0ED4", "U+0F24", "U+1044", "U+1094", "U+17E4", "U+1814", "U+194A",
       "U+19D4", "U+1A84", "U+1A94", "U+1B54", "U+1BB4", "U+1C44", "U+1C54",
       "U+A624", "U+A8D4", "U+A904", "U+A9D4", "U+A9F4", "U+AA54", "U+ABF4",
       "U+FF14", "U+104A4", "U+10D34", "U+1106A", "U+110F4", "U+1113A",
       "U+111D4", "U+112F4", "U+11454", "U+114D4", "U+11654", "U+116C4",
       "U+11734", "U+118E4", "U+11954", "U+11C54", "U+11D54", "U+11DA4",
       "U+16A64", "U+16AC4", "U+16B54", "U+1D7D2", "U+1D7DC", "U+1D7E6",
       "U+1D7F0", "U+1D7FA", "U+1E144", "U+1E2F4", "U+1E954", "U+1FBF4"},
      {"U+0665", "U+06F5", "U+07C5", "U+096B", "U+09EB", "U+0A6B", "U+0AEB",
       "U+0B6B", "U+0BEB", "U+0C6B", "U+0CEB", "U+0D6B", "U+0DEB", "U+0E55",
       "U+0ED5", "U+0F25", "U+1045", "U+1095", "U+17E5", "U+1815", "U+194B",
       "U+19D5", "U+1A85", "U+1A95", "U+1B55", "U+1BB5", "U+1C45", "U+1C55",
       "U+A625", "U+A8D5", "U+A905", "U+A9D5", "U+A9F5", "U+AA55", "U+ABF5",
       "U+FF15", "U+104A5", "U+10D35", "U+1106B", "U+110F5", "U+1113B",
       "U+111D5", "U+112F5", "U+11455", "U+114D5", "U+11655", "U+116C5",
       "U+11735", "U+118E5", "U+11955", "U+11C55", "U+11D55", "U+11DA5",
       "U+16A65", "U+16AC5", "U+16B55", "U+1D7D3", "U+1D7DD", "U+1D7E7",
       "U+1D7F1", "U+1D7FB", "U+1E145", "U+1E2F5", "U+1E955", "U+1FBF5"},
      {"U+0666", "U+06F6", "U+07C6", "U+096C", "U+09EC", "U+0A6C", "U+0AEC",
       "U+0B6C", "U+0BEC", "U+0C6C", "U+0CEC", "U+0D6C", "U+0DEC", "U+0E56",
       "U+0ED6", "U+0F26", "U+1046", "U+1096", "U+17E6", "U+1816", "U+194C",
       "U+19D6", "U+1A86", "U+1A96", "U+1B56", "U+1BB6", "U+1C46", "U+1C56",
       "U+A626", "U+A8D6", "U+A906", "U+A9D6", "U+A9F6", "U+AA56", "U+ABF6",
       "U+FF16", "U+104A6", "U+10D36", "U+1106C", "U+110F6", "U+1113C",
       "U+111D6", "U+112F6", "U+11456", "U+114D6", "U+11656", "U+116C6",
       "U+11736", "U+118E6", "U+11956", "U+11C56", "U+11D56", "U+11DA6",
       "U+16A66", "U+16AC6", "U+16B56", "U+1D7D4", "U+1D7DE", "U+1D7E8",
       "U+1D7F2", "U+1D7FC", "U+1E146", "U+1E2F6", "U+1E956", "U+1FBF6"},
      {"U+0667", "U+06F7", "U+07C7", "U+096D", "U+09ED", "U+0A6D", "U+0AED",
       "U+0B6D", "U+0BED", "U+0C6D", "U+0CED", "U+0D6D", "U+0DED", "U+0E57",
       "U+0ED7", "U+0F27", "U+1047", "U+1097", "U+17E7", "U+1817", "U+194D",
       "U+19D7", "U+1A87", "U+1A97", "U+1B57", "U+1BB7", "U+1C47", "U+1C57",
       "U+A627", "U+A8D7", "U+A907", "U+A9D7", "U+A9F7", "U+AA57", "U+ABF7",
       "U+FF17", "U+104A7", "U+10D37", "U+1106D", "U+110F7", "U+1113D",
       "U+111D7", "U+112F7", "U+11457", "U+114D7", "U+11657", "U+116C7",
       "U+11737", "U+118E7", "U+11957", "U+11C57", "U+11D57", "U+11DA7",
       "U+16A67", "U+16AC7", "U+16B57", "U+1D7D5", "U+1D7DF", "U+1D7E9",
       "U+1D7F3", "U+1D7FD", "U+1E147", "U+1E2F7", "U+1E957", "U+1FBF7"},
      {"U+0668", "U+06F8", "U+07C8", "U+096E", "U+09EE", "U+0A6E", "U+0AEE",
       "U+0B6E", "U+0BEE", "U+0C6E", "U+0CEE", "U+0D6E", "U+0DEE", "U+0E58",
       "U+0ED8", "U+0F28", "U+1048", "U+1098", "U+17E8", "U+1818", "U+194E",
       "U+19D8", "U+1A88", "U+1A98", "U+1B58", "U+1BB8", "U+1C48", "U+1C58",
       "U+A628", "U+A8D8", "U+A908", "U+A9D8", "U+A9F8", "U+AA58", "U+ABF8",
       "U+FF18", "U+104A8", "U+10D38", "U+1106E", "U+110F8", "U+1113E",
       "U+111D8", "U+112F8", "U+11458", "U+114D8", "U+11658", "U+116C8",
       "U+11738", "U+118E8", "U+11958", "U+11C58", "U+11D58", "U+11DA8",
       "U+16A68", "U+16AC8", "U+16B58", "U+1D7D6", "U+1D7E0", "U+1D7EA",
       "U+1D7F4", "U+1D7FE", "U+1E148", "U+1E2F8", "U+1E958", "U+1FBF8"},
      {"U+0669", "U+06F9", "U+07C9", "U+096F", "U+09EF", "U+0A6F", "U+0AEF",
       "U+0B6F", "U+0BEF", "U+0C6F", "U+0CEF", "U+0D6F", "U+0DEF", "U+0E59",
       "U+0ED9", "U+0F29", "U+1049", "U+1099", "U+17E9", "U+1819", "U+194F",
       "U+19D9", "U+1A89", "U+1A99", "U+1B59", "U+1BB9", "U+1C49", "U+1C59",
       "U+A629", "U+A8D9", "U+A909", "U+A9D9", "U+A9F9", "U+AA59", "U+ABF9",
       "U+FF19", "U+104A9", "U+10D39", "U+1106F", "U+110F9", "U+1113F",
       "U+111D9", "U+112F9", "U+11459", "U+114D9", "U+11659", "U+116C9",
       "U+11739", "U+118E9", "U+11959", "U+11C59", "U+11D59", "U+11DA9",
       "U+16A69", "U+16AC9", "U+16B59", "U+1D7D7", "U+1D7E1", "U+1D7EB",
       "U+1D7F5", "U+1D7FF", "U+1E149", "U+1E2F9", "U+1E959", "U+1FBF9"} >>

\* c is a digit of the radix: int() reads a decimal digit of any script as
\* the ASCII digit of its value
IsDigit(c, radix) ==
    \E k \in 1..radix : \/ HexChars[k] = c
                        \/ (k > 10 /\ HexUpper[k - 10] = c)
                        \/ (k <= 10 /\ c \in DecimalDigits[k])

DigitVal(c) ==
    (CHOOSE k \in 1..16 : \/ HexChars[k] = c
                          \/ (k > 10 /\ HexUpper[k - 10] = c)
                          \/ (k <= 10 /\ c \in DecimalDigits[k])) - 1

\* the value of a digit string, its underscores skipped
RECURSIVE digits(_, _, _)
digits(s, radix, acc) ==
    IF s = <<>> THEN acc
    ELSE IF Head(s) = "_" THEN digits(Tail(s), radix, acc)
    ELSE digits(Tail(s), radix, acc * radix + DigitVal(Head(s)))

\* sys.int_info.default_max_str_digits
MaxStrDigits == 4300

\* the length of the longest prefix of d made of digits and underscores
RunLen(d, radix) ==
    Cardinality({k \in 1..Len(d) : \A j \in 1..k : d[j] = "_" \/ IsDigit(d[j], radix)})

\* int on a digit string whose first n characters are its digits and
\* underscores: an underscore stands between two digits only, a radix that
\* is no power of two takes at most MaxStrDigits digits, and nothing may
\* follow the digits
int_run(d, radix, n) ==
    IF \E k \in 1..n : d[k] = "_" /\ (k = 1 \/ k = n \/ d[k + 1] = "_")
    THEN Raise("ValueError", "invalid literal for int()")
    ELSE IF radix \notin {2, 4, 8, 16, 32}
            /\ Cardinality({k \in 1..n : d[k] # "_"}) > MaxStrDigits
    THEN Raise("ValueError", "Exceeds the limit (4300 digits) for integer string conversion")
    ELSE IF n = 0 \/ n < Len(d)
    THEN Raise("ValueError", "invalid literal for int()")
    ELSE Ok(digits(d, radix, 0))

\* int on a digit string
int_digits(d, radix) == int_run(d, radix, RunLen(d, radix))

\* what follows a 0x prefix: one underscore may come before the digits
after_prefix(d) == IF d # <<>> /\ Head(d) = "_" THEN Tail(d) ELSE d

\* int on an unsigned literal: an optional 0x or 0X prefix in radix 16, its
\* zero in any script
int_unsigned(u, radix) ==
    int_digits(IF /\ radix = 16
                  /\ Len(u) >= 2
                  /\ (u[1] = "0" \/ u[1] \in DecimalDigits[1])
                  /\ u[2] \in {"x", "X"}
               THEN after_prefix(SubSeq(u, 3, Len(u))) ELSE u,
               radix)

\* -r for the result r of int on the digits; an exception propagates
negated(r) == IF r.ok THEN Ok(-r.val) ELSE r

\* int on a stripped literal: an optional sign
int_signed(t, radix) ==
    IF t # <<>> /\ Head(t) = "-" THEN negated(int_unsigned(Tail(t), radix))
    ELSE IF t # <<>> /\ Head(t) = "+" THEN int_unsigned(Tail(t), radix)
    ELSE int_unsigned(t, radix)

\* the whitespace int() skips: a space outside ASCII is read as a blank,
\* the separators 0x1c..0x1f are not skipped
IntSpace == AsciiSpace \cup UnicodeSpace

RECURSIVE skip_left(_)
skip_left(s) == IF s # <<>> /\ Head(s) \in IntSpace THEN skip_left(Tail(s)) ELSE s

RECURSIVE skip_right(_)
skip_right(s) ==
    IF s # <<>> /\ s[Len(s)] \in IntSpace THEN skip_right(SubSeq(s, 1, Len(s) - 1)) ELSE s

skip_space(s) == skip_left(skip_right(s))

\* int(v, radix): surrounding whitespace, an optional sign, an optional 0x
\* prefix in radix 16, then digits with single underscores between them;
\* ValueError otherwise
int(v, radix) == int_signed(skip_space(v), radix)

\* try: return r  except ValueError: return alt
OrElse(r, alt) == IF r.ok THEN r ELSE alt

dec_or_hex(v) == OrElse(int(v, 10), int(v, 16))

(***************************************************************************)
(* Instruction words.  A non-negative Python int is kept as the set of the *)
(* positions of its 1 bits, so that the shifts and ORs that build a 32-bit *)
(* word stay exact.                                                        *)
(***************************************************************************)
\* operands and offsets are below 2^31: bits 0..30 are scanned
ValueBits == 31

\* the bits of a non-negative int v < 2^31
ToWord(v) == {k \in 0..(ValueBits - 1) : (v \div (2 ^ k)) % 2 = 1}

\* inst = 0
ZeroWord == {}

\* w << s
shl(w, s) == {k + s : k \in w}

\* a | b
bor(a, b) == a \cup b

Bit(w, k) == IF k \in w THEN 1 ELSE 0

\* byte j of a word, j = 0 the least significant
ByteOf(w, j) ==
    Bit(w, 8 * j) + 2 * Bit(w, 8 * j + 1) + 4 * Bit(w, 8 * j + 2) + 8 * Bit(w, 8 * j + 3)
    + 16 * Bit(w, 8 * j + 4) + 32 * Bit(w, 8 * j + 5) + 64 * Bit(w, 8 * j + 6)
    + 128 * Bit(w, 8 * j + 7)

\* struct.pack(">L", inst): four bytes, most significant first
struct_pack_mut(inst) == <<ByteOf(inst, 1), ByteOf(inst, 0)>>

struct_pack(inst) == <<ByteOf(inst, 3), ByteOf(inst, 2), ByteOf(inst, 1), ByteOf(inst, 0)>>

(***************************************************************************)
(* Range checks and bit-field encoders                                     *)
(***************************************************************************)
assert_sbits_mut(v, n) ==
    IF -(2 ^ (n - 1)) <= v /\ v <= 2 ^ (n - 1)
    THEN Ok(v % (2 ^ n))
    ELSE Raise("AssertionError", "Too many signed bits")

assert_sbits(v, n) ==
    IF -(2 ^ (n - 1)) <= v /\ v < 2 ^ (n - 1)
    THEN Ok(v % (2 ^ n))
    ELSE Raise("AssertionError", "Too many signed bits")

assert_ubits(v, n) ==
    IF 0 <= v /\ v < 2 ^ n
    THEN Ok(v)
    ELSE Raise("AssertionError", "Too many unsigned bits")

\* r << s for the result r of a range check; an exception propagates
Shifted(r, s) == IF r.ok THEN Ok(shl(ToWord(r.val), s)) ELSE r

\* assert_ubits(r, n) for the result r of a parse; an exception propagates
checked_ubits(r, n) == IF r.ok THEN assert_ubits(r.val, n) ELSE r

\* assert_sbits(r, n) for the result r of a parse or of a computation
checked_sbits(r, n) == IF r.ok THEN assert_sbits(r.val, n) ELSE r

\* assert_ubits(dec_or_hex(arg), n) << s
ubits_field(arg, n, s) == Shifted(checked_ubits(dec_or_hex(arg), n), s)

reg(ctx, s) ==
    IF s = <<>> THEN Raise("IndexError", "string index out of range")
    ELSE IF s[1] # "r" THEN Raise("AssertionError", "")
    ELSE checked_ubits(int(Tail(s), 10), 5)

rs(ctx, arg) == Shifted(reg(ctx, arg), 21)

rd(ctx, arg) == Shifted(reg(ctx, arg), 16)

rt(ctx, arg) == Shifted(reg(ctx, arg), 11)

cmpop(ctx, arg) == ubits_field(arg, 5, 16)

simm16(ctx, arg) == Shifted(checked_sbits(dec_or_hex(arg), 16), 0)

uimm16(ctx, arg) == ubits_field(arg, 16, 0)

opcode(ctx, arg) == ubits_field(arg, 6, 26)

jmpop(ctx, arg) == ubits_field(arg, 2, 0)

off11(ctx, arg) == ubits_field(arg, 11, 0)

bitsel(ctx, arg) == ubits_field(arg, 5, 16)

twobits(ctx, arg) == ubits_field(arg, 2, 0)

funct(ctx, arg) == ubits_field(arg, 11, 0)

(***************************************************************************)
(* Assembly context.  Label tables are objects on a heap, so that a table  *)
(* shared between two contexts is shared in the model as well: object      *)
(* DefaultLabels is the dict of the default argument of Context.__init__,  *)
(* objects 1 and 2 are the tables of the contexts of pass 1 and pass 2.    *)
(***************************************************************************)
DefaultLabels == 0

Objects == 0..2

\* Context.__init__(self, base, labels) with self.labels allocated at self_labels
Context_init_mut(h, b, labels, self_labels) ==
    [heap |-> h, ctx |-> [base |-> b, labels |-> labels, code |-> <<>>]]

Context_init(h, b, labels, self_labels) ==
    [heap |-> [h EXCEPT ![self_labels] = h[labels]],
     ctx  |-> [base |-> b, labels |-> self_labels, code |-> <<>>]]

address_mut(ctx) == Len(ctx.code)

address(ctx) == ctx.base + Len(ctx.code)

emit_mut(ctx, inst) == [ctx EXCEPT !.code = struct_pack(inst)]

emit(ctx, inst) == [ctx EXCEPT !.code = @ \o struct_pack(inst)]

rel24(h, ctx, arg) ==
    LET rel == DictGet(h[ctx.labels], arg, 0) - address(ctx)
    IN  IF rel % 4 # 0 THEN Raise("AssertionError", "Unaligned rel24")
        ELSE Shifted(assert_sbits(rel \div 4, 24), 0)

rel16_mut(h, ctx, arg) ==
    LET rel == DictGet(h[ctx.labels], arg, 0) - (address(ctx) + 4)
    IN  IF rel % 4 # 0 THEN Raise("AssertionError", "Unaligned rel16")
        ELSE Shifted(assert_sbits(rel \div 4, 16), 0)

rel16(h, ctx, arg) ==
    LET rel == DictGet(h[ctx.labels], arg, 0) - address(ctx)
    IN  IF rel % 4 # 0 THEN Raise("AssertionError", "Unaligned rel16")
        ELSE Shifted(assert_sbits(rel \div 4, 16), 0)

\* fields[name](ctx, arg)
fields(name, h, ctx, arg) ==
    CASE name = "rs"      -> rs(ctx, arg)
      [] name = "rd"      -> rd(ctx, arg)
      [] name = "rt"      -> rt(ctx, arg)
      [] name = "cmpop"   -> cmpop(ctx, arg)
      [] name = "simm16"  -> simm16(ctx, arg)
      [] name = "uimm16"  -> uimm16(ctx, arg)
      [] name = "opcode"  -> opcode(ctx, arg)
      [] name = "jmpop"   -> jmpop(ctx, arg)
      [] name = "rel24"   -> rel24(h, ctx, arg)
      [] name = "rel16"   -> rel16(h, ctx, arg)
      [] name = "off11"   -> off11(ctx, arg)
      [] name = "bitsel"  -> bitsel(ctx, arg)
      [] name = "twobits" -> twobits(ctx, arg)
      [] name = "funct"   -> funct(ctx, arg)
      [] OTHER            -> Raise("KeyError", name)

(***************************************************************************)
(* Instruction table.  A layout string is kept as the list of its          *)
(* (field, literal) parts; an empty literal takes the next operand.        *)
(***************************************************************************)
\* the loop of st(s).func: OR the field contributions, then emit the word
RECURSIVE st(_, _, _, _, _)

\* inst |= r for the contribution r of a field, then the remaining parts
st_or(r, parts, h, ctx, args, inst) ==
    IF r.ok THEN st(parts, h, ctx, args, bor(inst, r.val)) ELSE r

st(parts, h, ctx, args, inst) ==
    IF parts = <<>> THEN Ok([heap |-> h, ctx |-> emit(ctx, inst)])
    ELSE LET field == Head(parts)[1]
             lit   == Head(parts)[2]
         IN  IF lit = <<>> /\ args = <<>>
             THEN Raise("IndexError", "pop from empty list")
             ELSE st_or(fields(field, h, ctx, IF lit = <<>> THEN Head(args) ELSE lit),
                        Tail(parts), h, ctx,
                        IF lit = <<>> THEN Tail(args) ELSE args,
                        inst)

lbl_func(h, ctx, args) ==
    IF args[1] \in DOMAIN h[ctx.labels]
    THEN IF h[ctx.labels][args[1]] = address(ctx)
         THEN Ok([heap |-> h, ctx |-> ctx])
         ELSE Raise("AssertionError", "")
    ELSE Ok([heap |-> [h EXCEPT ![ctx.labels] = DictSet(@, args[1], address(ctx))],
             ctx  |-> ctx])

instructions ==
    "unk.r" :> <<<<"opcode", <<>>>>, <<"rd", <<>>>>, <<"rs", <<>>>>, <<"rt", <<>>>>, <<"funct", <<>>>>>> @@
    "addi" :> <<<<"opcode", <<"0", "x", "0", "0">>>>, <<"rd", <<>>>>, <<"rs", <<>>>>, <<"simm16", <<>>>>>> @@
    "set0" :> <<<<"opcode", <<"0", "x", "0", "6">>>>, <<"rd", <<>>>>, <<"rs", <<>>>>, <<"uimm16", <<>>>>>> @@
    "set1" :> <<<<"opcode", <<"0", "x", "0", "7">>>>, <<"rd", <<>>>>, <<"rs", <<>>>>, <<"uimm16", <<>>>>>> @@
    "set3" :> <<<<"opcode", <<"0", "x", "0", "8">>>>, <<"rd", <<>>>>, <<"rs", <<>>>>, <<"uimm16", <<>>>>>> @@
    "set2" :> <<<<"opcode", <<"0", "x", "0", "9">>>>, <<"rd", <<>>>>, <<"rs", <<>>>>, <<"uimm16", <<>>>>>> @@
    "call" :> <<<<"opcode", <<"0", "x", "2", "5">>>>, <<"jmpop", <<"0", "x", "0">>>>, <<"rel24", <<>>>>>> @@
    "jump" :> <<<<"opcode", <<"0", "x", "2", "5">>>>, <<"jmpop", <<"0", "x", "1">>>>, <<"rel24", <<>>>>>> @@
    "alu.r" :> <<<<"opcode", <<"0", "x", "3", "f">>>>, <<"funct", <<>>>>, <<"rd", <<>>>>, <<"rs", <<>>>>, <<"rt", <<>>>>>> @@
    "add" :> <<<<"opcode", <<"0", "x", "3", "f">>>>, <<"rd", <<>>>>, <<"rs", <<>>>>, <<"rt", <<>>>>, <<"funct", <<"0", "x", "0", "0", "0">>>>>> @@
    "sub" :> <<<<"opcode", <<"0", "x", "3", "f">>>>, <<"rd", <<>>>>, <<"rs", <<>>>>, <<"rt", <<>>>>, <<"funct", <<"0", "x", "0", "0", "4">>>>>> @@
    "subs" :> <<<<"opcode", <<"0", "x", "3", "f">>>>, <<"rd", <<>>>>, <<"rs", <<>>>>, <<"rt", <<>>>>, <<"funct", <<"0", "x", "0", "0", "5">>>>>> @@
    "alur.0xb" :> <<<<"opcode", <<"0", "x", "3", "f">>>>, <<"rd", <<>>>>, <<"rs", <<>>>>, <<"rt", <<>>>>, <<"funct", <<"0", "0", "b">>>>>> @@
    "b.t" :> <<<<"opcode", <<"0", "x", "2", "8">>>>, <<"cmpop", <<>>>>, <<"rs", <<>>>>, <<"rel16", <<>>>>>> @@
    "b.f" :> <<<<"opcode", <<"0", "x", "2", "9">>>>, <<"cmpop", <<>>>>, <<"rs", <<>>>>, <<"rel16", <<>>>>>> @@
    "b.set" :> <<<<"opcode", <<"0", "x", "2", "a">>>>, <<"rs", <<>>>>, <<"bitsel", <<>>>>, <<"rel16", <<>>>>>> @@
    "b.clr" :> <<<<"opcode", <<"0", "x", "2", "b">>>>, <<"rs", <<>>>>, <<"bitsel", <<>>>>, <<"rel16", <<>>>>>> @@
    "ld.d" :> <<<<"opcode", <<"0", "x", "1", "9">>>>, <<"rd", <<>>>>, <<"rs", <<>>>>, <<"rt", <<>>>>, <<"off11", <<>>>>, <<"twobits", <<"0", "x", "2">>>>>> @@
    "st.d" :> <<<<"opcode", <<"0", "x", "1", "b">>>>, <<"rd", <<>>>>, <<"rs", <<>>>>, <<"rt", <<>>>>, <<"off11", <<>>>>, <<"twobits", <<"0", "x", "2">>>>>> @@
    "st.q" :> <<<<"opcode", <<"0", "x", "1", "e">>>>, <<"rd", <<>>>>, <<"rs", <<>>>>, <<"rt", <<>>>>, <<"off11", <<>>>>, <<"twobits", <<>>>>>> @@
    "ret.d" :> <<<<"opcode", <<"0", "x", "3", "f">>>>, <<"rd", <<>>>>, <<"rs", <<>>>>, <<"rt", <<>>>>, <<"funct", <<"0", "x", "0", "2", "d">>>>>> @@
    "lbl" :> "lbl_func"

\* the elements of a sequence, each stripped
RECURSIVE strip_all(_)
strip_all(ss) == IF ss = <<>> THEN <<>> ELSE <<strip(Head(ss))>> \o strip_all(Tail(ss))

\* one iteration of the loop of assemble_pass, on one line of the source
assemble_line(h, ctx, raw) ==
    LET line == strip(raw)
    IN  IF line = <<>> \/ Head(line) = "#" THEN Ok([heap |-> h, ctx |-> ctx])
        ELSE LET op_args == split1(line, " ")
             IN  IF Len(op_args) # 2
                 THEN Raise("ValueError", "not enough values to unpack")
                 ELSE LET op   == str(op_args[1])
                          args == strip_all(split(strip(op_args[2]), ","))
                      IN  IF op \notin DOMAIN instructions THEN Raise("KeyError", op)
                          ELSE IF op = "lbl" THEN lbl_func(h, ctx, args)
                          ELSE st(instructions[op], h, ctx, args, ZeroWord)

\* assemble_pass(ctx, source) from line k on; source is source.split("\n")
RECURSIVE assemble_pass(_, _, _, _)

\* the lines from k on, after a line that left r
pass_rest(r, source, k) ==
    IF r.ok THEN assemble_pass(r.val.heap, r.val.ctx, source, k) ELSE r

assemble_pass(h, ctx, source, k) ==
    IF k > Len(source) THEN Ok([heap |-> h, ctx |-> ctx])
    ELSE pass_rest(assemble_line(h, ctx, source[k]), source, k + 1)

\* assemble_pass(ctx, source) on a context c just constructed
first_pass(c, source) == assemble_pass(c.heap, c.ctx, source, 1)

\* ctx = Context(base, ctx.labels); assemble_pass(ctx, source), after a
\* first pass that left r
second_pass(r, source, b) ==
    IF r.ok THEN first_pass(Context_init(r.val.heap, b, r.val.ctx.labels, 2), source)
    ELSE r

\* return ctx.code, after a second pass that left r
returned(r) == IF r.ok THEN Ok(r.val.ctx.code) ELSE r

\* assemble(source, base) run on heap h: the code it returns or the
\* exception it raises
assemble(h, source, b) ==
    returned(second_pass(first_pass(Context_init(h, b, DefaultLabels, 1), source),
                         source, b))

(***************************************************************************)
(* Inputs                                                                  *)
(***************************************************************************)
LineLblA == <<"l", "b", "l", " ", "a">>

LineAddi == <<"a", "d", "d", "i", " ", "r", "1", ",", " ", "r", "2", ",", " ", "1", "0">>

LineJumpA == <<"j", "u", "m", "p", " ", "a">>

LineBtA == <<"b", ".", "t", " ", "0", ",", " ", "r", "1", ",", " ", "a">>

LineBlank == <<>>

LineComment == <<"#", " ", "c">>

ProgJumpEnd ==
    <<<<"j", "u", "m", "p", " ", "e", "n", "d">>,
      <<"a", "d", "d", "i", " ", "r", "1", ",", " ", "r", "2", ",", " ", "1">>,
      <<"a", "d", "d", "i", " ", "r", "3", ",", " ", "r", "4", ",", " ", "2">>,
      <<"a", "d", "d", "i", " ", "r", "5", ",", " ", "r", "6", ",", " ", "3">>,
      <<"l", "b", "l", " ", "e", "n", "d">>>>

ProgLoop ==
    <<<<"a", "d", "d", "i", " ", "r", "1", ",", " ", "r", "2", ",", " ", "1", "0">>,
      <<"l", "b", "l", " ", "l", "o", "o", "p">>,
      <<"a", "d", "d", "i", " ", "r", "1", ",", " ", "r", "1", ",", " ", "-", "1">>,
      <<"b", ".", "t", " ", "0", ",", " ", "r", "1", ",", " ", "l", "o", "o", "p">>>>

ProgTwoLabels ==
    <<<<"l", "b", "l", " ", "a">>,
      <<"l", "b", "l", " ", "a">>,
      <<"a", "d", "d", "i", " ", "r", "1", ",", " ", "r", "2", ",", " ", "0", "x", "1", "0">>,
      <<"l", "b", "l", " ", "b">>,
      <<"b", ".", "f", " ", "1", ",", " ", "r", "3", ",", " ", "a">>,
      <<"c", "a", "l", "l", " ", "b">>>>

ProgMisc ==
    <<<<" ", " ", "#", " ", "i", "n", "d", "e", "n", "t", "e", "d">>,
      <<"a", "d", "d", " ", "r", "1", ",", " ", "r", "2", ",", " ", "r", "3">>,
      <<"a", "l", "u", "r", ".", "0", "x", "b", " ", "r", "4", ",", "r", "5", ",", "r", "6">>,
      <<"l", "d", ".", "d", " ", "r", "1", ",", " ", "r", "2", ",", " ", "r", "3", ",", " ", "8">>,
      <<"b", ".", "s", "e", "t", " ", "r", "1", ",", " ", "3", ",", " ", "x">>,
      <<" ", "l", "b", "l", " ", "x", " ">>,
      <<"s", "e", "t", "0", " ", "r", "1", ",", " ", "r", "2", ",", " ", "0", "x", "f", "f", "f", "f">>>>

ProgBadReg ==
    <<<<"a", "d", "d", "i", " ", "r", "3", "2", ",", " ", "r", "2", ",", " ", "1">>>>

ProgNoSpace ==
    <<<<"a", "d", "d", "i", " ", "r", "1", ",", " ", "r", "2", ",", " ", "1">>,
      <<"n", "o", "p">>>>

ProgUnknown ==
    <<<<"f", "o", "o", " ", "1">>>>

ProgFewArgs ==
    <<<<"a", "d", "d", "i", " ", "r", "1", ",", " ", "r", "2">>>>

ProgBadInt ==
    <<<<"a", "d", "d", "i", " ", "r", "1", ",", " ", "r", "2", ",", " ", "x", "y", "z">>>>

ProgBadImm ==
    <<<<"a", "d", "d", "i", " ", "r", "1", ",", " ", "r", "2", ",", " ", "3", "2", "7", "6", "8">>>>

\* tabs, a carriage return, upper-case hexadecimal, underscores between digits
ProgSpellings ==
    <<<<"\t", "#", " ", "c">>,
      <<"\t", "a", "d", "d", "i", " ", "r", "1", ",", " ", "r", "2", ",", " ", "0", "x", "F", "F", "\r">>,
      <<"\f", " ", "\r">>,
      <<"s", "e", "t", "0", " ", "r", "1", ",", "\t", "r", "2", " ", ",", " ", "0", "X", "F", "F", "F", "F">>,
      <<"a", "d", "d", "i", " ", "r", " ", "1", ",", " ", "r", "0", "_", "2", ",", " ", "-", "1", "_", "0">>,
      <<"a", "l", "u", "r", ".", "0", "x", "b", " ", "r", "4", ",", " ", "r", "5", ",", " ", "r", "6", "\t">>,
      <<"a", "d", "d", "i", " ", "r", "1", ",", " ", "r", "2", ",", " ", "0", "x", "_", "1", "f">>,
      <<"l", "b", "l", " ", "\f", "a", "\t">>,
      <<"j", "u", "m", "p", " ", "\f", "a">>>>

\* a tab is no separator between the mnemonic and its operands
ProgTabAfterOp ==
    <<<<"a", "d", "d", "i", "\t", "r", "1", ",", " ", "r", "2", ",", " ", "1">>>>

\* two underscores in a row make no literal, in base 10 or in base 16
ProgBadUnderscore ==
    <<<<"a", "d", "d", "i", " ", "r", "1", ",", " ", "r", "2", ",", " ", "1", "_", "_", "0">>>>

\* a vertical tab, the separators 0x1c and 0x1f, spaces and decimal digits
\* outside ASCII
ProgUnicode ==
    <<<<"", "a", "d", "d", "i", " ", "r", "1", ",", " ", "r", "2", ",", " ", "U+0663", "">>,
      <<"a", "d", "d", "i", " ", "U+00A0", "r", "", "1", "U+0085", ",", "U+2003", "r", "U+FF12", " ", ",", " ", "-", "U+0661", "_", "U+1D7CE", "U+3000">>,
      <<"", "U+2028">>,
      <<"s", "e", "t", "0", " ", "r", "1", ",", " ", "r", "2", ",", " ", "U+0660", "x", "U+FF11", "f">>,
      <<"l", "b", "l", " ", "U+0663">>,
      <<"b", ".", "t", " ", "0", ",", " ", "r", "0", ",", " ", "U+0663", "">>>>

\* int() does not skip a separator 0x1c, which str.strip() removes
ProgSeparatorInReg ==
    <<<<"a", "d", "d", "i", " ", "r", "", "1", ",", " ", "r", "2", ",", " ", "1">>>>

MaxLines == 3

Alphabet == {LineLblA, LineAddi, LineJumpA, LineBtA, LineBlank, LineComment}

NamedPrograms ==
    {ProgJumpEnd, ProgLoop, ProgTwoLabels, ProgMisc, ProgBadReg, ProgNoSpace,
     ProgUnknown, ProgFewArgs, ProgBadInt, ProgBadImm, ProgSpellings,
     ProgTabAfterOp, ProgBadUnderscore, ProgUnicode, ProgSeparatorInReg}

Sources == (UNION {[1..n -> Alphabet] : n \in 1..MaxLines}) \cup NamedPrograms

\* 0, 4, 1, 0x20004, 0x2000000, 0x2000004
Bases == {0, 4, 1, 131076, 33554432, 33554436}

(***************************************************************************)
(* The assembler as a state machine: calls of assemble follow one another  *)
(* in one process, each processing the source line by line, twice.         *)
(***************************************************************************)
VARIABLES
    heap,      \* label tables, by object
    source,    \* the lines of the source of the current call
    base,      \* the base address of the current call
    ctx,       \* the local variable ctx of assemble
    pass,      \* 0 between calls, else the pass being run
    i,         \* index of the next line of the pass (of the failing line once raised)
    pc,        \* "idle" between calls, "running", "returned" or "raised"
    result,    \* the bytes returned or the exception raised by the call
    earlier,   \* TRUE once a call of assemble has ended before the current one
    fname,     \* encoder probe: the field applied
    farg,      \* encoder probe: its textual operand
    fval,      \* encoder probe: the integer the operand spells
    fout       \* encoder probe: what the field returned or raised

vars == <<heap, source, base, ctx, pass, i, pc, result, earlier, fname, farg, fval, fout>>

asm_vars == <<heap, source, base, ctx, pass, i, pc, result, earlier>>

probe_vars == <<fname, farg, fval, fout>>

None == [none |-> TRUE]

NoCtx == [base |-> 0, labels |-> DefaultLabels, code |-> <<>>]

AsmIdle ==
    /\ heap = [o \in Objects |-> EmptyDict]
    /\ source = <<>>
    /\ base = 0
    /\ ctx = NoCtx
    /\ pass = 0
    /\ i = 0
    /\ pc = "idle"
    /\ result = None
    /\ earlier = FALSE

ProbeIdle ==
    /\ fname = ""
    /\ farg = <<>>
    /\ fval = 0
    /\ fout = None

Init == AsmIdle /\ ProbeIdle

\* assemble(source, base) is called: ctx = Context(base)
AssembleCall(s, b) ==
    /\ pc = "idle"
    /\ LET c == Context_init(heap, b, DefaultLabels, 1)
       IN  /\ heap' = c.heap
           /\ ctx' = c.ctx
    /\ source' = s
    /\ base' = b
    /\ pass' = 1
    /\ i' = 1
    /\ pc' = "running"
    /\ UNCHANGED <<result, earlier, probe_vars>>

\* what one line leaves behind: the next line is due, or the exception
\* leaves assemble
LineDone(r) ==
    IF r.ok
    THEN /\ heap' = r.val.heap
         /\ ctx' = r.val.ctx
         /\ i' = i + 1
         /\ UNCHANGED <<pc, result>>
    ELSE /\ pc' = "raised"
         /\ result' = r
         /\ UNCHANGED <<heap, ctx, i>>

\* one line of the pass being run
Line ==
    /\ pc = "running"
    /\ i <= Len(source)
    /\ LineDone(assemble_line(heap, ctx, source[i]))
    /\ UNCHANGED <<source, base, pass, earlier, probe_vars>>

\* a line of the first assemble_pass
Pass1Line ==
    /\ pass = 1
    /\ Line

\* pass 1 is over: ctx = Context(base, ctx.labels)
Pass2Begin ==
    /\ pc = "running"
    /\ pass = 1
    /\ i > Len(source)
    /\ LET c == Context_init(heap, base, ctx.labels, 2)
       IN  /\ heap' = c.heap
           /\ ctx' = c.ctx
    /\ pass' = 2
    /\ i' = 1
    /\ UNCHANGED <<source, base, pc, result, earlier, probe_vars>>

\* a line of the second assemble_pass
Pass2Line ==
    /\ pass = 2
    /\ Line

\* return ctx.code
AssembleReturn ==
    /\ pc = "running"
    /\ pass = 2
    /\ i > Len(source)
    /\ pc' = "returned"
    /\ result' = Ok(ctx.code)
    /\ UNCHANGED <<heap, source, base, ctx, pass, i, earlier, probe_vars>>

\* the caller is done with what the call returned or raised: the frame of
\* the call and the contexts it created are garbage
CallEnds ==
    /\ pc \in {"returned", "raised"}
    /\ heap' = [heap EXCEPT ![1] = EmptyDict, ![2] = EmptyDict]
    /\ source' = <<>>
    /\ base' = 0
    /\ ctx' = NoCtx
    /\ pass' = 0
    /\ i' = 0
    /\ pc' = "idle"
    /\ result' = None
    /\ earlier' = TRUE
    /\ UNCHANGED probe_vars

Next ==
    \/ \E s \in Sources, b \in Bases : AssembleCall(s, b)
    \/ Pass1Line
    \/ Pass2Begin
    \/ Pass2Line
    \/ AssembleReturn
    \/ CallEnds

Spec == Init /\ [][Next]_vars

(***************************************************************************)
(* The bit-field encoders on their own: an operand is drawn, one field is  *)
(* applied to it.                                                          *)
(***************************************************************************)
Margin == 2

\* the limits of the field widths in use: 2, 5, 6, 11, 16 bits, signed 16
Boundaries == {-32768, 0, 4, 32, 64, 2048, 32768, 65536}

ProbeValues == UNION {(b - Margin)..(b + Margin) : b \in Boundaries}

RegFields == {"rs", "rd", "rt"}

UnsignedFields == {"cmpop", "uimm16", "opcode", "jmpop", "off11", "bitsel", "twobits", "funct"}

ProbeFields == RegFields \cup UnsignedFields \cup {"simm16"}

\* the decimal text of an integer
RECURSIVE dec_text(_)
dec_text(n) ==
    IF n < 0 THEN <<"-">> \o dec_text(-n)
    ELSE IF n < 10 THEN <<HexChars[n + 1]>>
    ELSE dec_text(n \div 10) \o <<HexChars[(n % 10) + 1]>>

\* n >= 0 in base 16, in the digits of table t
RECURSIVE hex_text(_, _)
hex_text(n, t) ==
    IF n < 16 THEN <<t[n + 1]>> ELSE hex_text(n \div 16, t) \o <<t[(n % 16) + 1]>>

UpperTable == SubSeq(HexChars, 1, 10) \o HexUpper

\* a digit string with an underscore between every two digits
RECURSIVE underscored(_)
underscored(d) ==
    IF Len(d) <= 1 \/ Head(d) = "-" THEN (IF d = <<>> THEN d ELSE <<Head(d)>> \o underscored(Tail(d)))
    ELSE <<Head(d), "_">> \o underscored(Tail(d))

\* the Arabic-Indic digits 0..9
ArabicIndic == <<"U+0660", "U+0661", "U+0662", "U+0663", "U+0664", "U+0665", "U+0666", "U+0667", "U+0668", "U+0669">>

\* n >= 0 in base 10, in the digits of table t
RECURSIVE script_text(_, _)
script_text(n, t) ==
    IF n < 10 THEN <<t[n + 1]>> ELSE script_text(n \div 10, t) \o <<t[(n % 10) + 1]>>

Sign(v) == IF v < 0 THEN <<"-">> ELSE <<>>

Abs(v) == IF v < 0 THEN -v ELSE v

\* the spellings of value v that int and dec_or_hex read as v
Spellings(v) ==
    {dec_text(v),
     underscored(dec_text(v)),
     <<"\t">> \o dec_text(v) \o <<"\r">>,
     <<"", "U+00A0">> \o dec_text(v) \o <<"U+2003">>,
     Sign(v) \o script_text(Abs(v), ArabicIndic),
     Sign(v) \o <<"0", "x">> \o hex_text(Abs(v), HexChars),
     Sign(v) \o <<"0", "X", "_">> \o hex_text(Abs(v), UpperTable)}

\* the operands that spell value v for field f: a register is r and a
\* decimal number
OperandTexts(f, v) ==
    IF f \in RegFields
    THEN {<<"r">> \o dec_text(v), <<"r">> \o underscored(dec_text(v)),
          <<"r", " ">> \o dec_text(v) \o <<"\f">>,
          <<"r", "">> \o Sign(v) \o script_text(Abs(v), ArabicIndic)}
    ELSE Spellings(v)

ProbeInit ==
    /\ AsmIdle
    /\ fname \in ProbeFields
    /\ fval \in ProbeValues
    /\ farg \in OperandTexts(fname, fval)
    /\ fout = None

\* fields[fname](ctx, farg)
ApplyField ==
    /\ fout = None
    /\ fname # ""
    /\ fout' = fields(fname, heap, ctx, farg)
    /\ UNCHANGED <<fname, farg, fval, asm_vars>>

SpecFields == ProbeInit /\ [][ApplyField]_vars

(***************************************************************************)
(* Vocabulary of the properties                                            *)
(***************************************************************************)
\* a line that is neither blank nor a comment
IsCode(line) == strip(line) # <<>> /\ Head(strip(line)) # "#"

Mnemonic(line) == str(split1(strip(line), " ")[1])

Operands(line) == strip_all(split(strip(split1(strip(line), " ")[2]), ","))

HasOperands(line) == IsCode(line) /\ Len(split1(strip(line), " ")) = 2

IsLbl(line) == HasOperands(line) /\ Mnemonic(line) = "lbl"

\* a line that is not blank, not a comment and not a label declaration
IsInstr(line) == IsCode(line) /\ ~IsLbl(line)

Jumps == {"call", "jump"}

Branches == {"b.t", "b.f", "b.set", "b.clr"}

\* a line whose layout has a rel24 or rel16 field, with the label it names
IsRel(line) ==
    /\ HasOperands(line)
    /\ \/ Mnemonic(line) \in Jumps /\ Len(Operands(line)) >= 1
       \/ Mnemonic(line) \in Branches /\ Len(Operands(line)) >= 3

Target(line) == IF Mnemonic(line) \in Jumps THEN Operands(line)[1] ELSE Operands(line)[3]

RelWidth(line) == IF Mnemonic(line) \in Jumps THEN 24 ELSE 16

\* number of instruction lines before line k
InstrBefore(src, k) == Cardinality({j \in 1..(k - 1) : IsInstr(src[j])})

DeclaredNames(src) == {Operands(src[k])[1] : k \in {j \in 1..Len(src) : IsLbl(src[j])}}

FirstLbl(src, n) ==
    CHOOSE k \in 1..Len(src) :
        /\ IsLbl(src[k]) /\ Operands(src[k])[1] = n
        /\ \A j \in 1..(k - 1) : ~(IsLbl(src[j]) /\ Operands(src[j])[1] = n)

\* the label table a source determines at a base
ExpectedLabels(src, b) ==
    [n \in DeclaredNames(src) |-> b + 4 * InstrBefore(src, FirstLbl(src, n))]

\* the low 24 and low 16 bits of the n-th word of a byte sequence
Low24(bytes, n) == bytes[4 * n - 2] * 65536 + bytes[4 * n - 1] * 256 + bytes[4 * n]

Low16(bytes, n) == bytes[4 * n - 1] * 256 + bytes[4 * n]

Signed16(v) == IF v >= 32768 THEN v - 65536 ELSE v

Labels == heap[ctx.labels]

(***************************************************************************)
(* Properties                                                              *)
(***************************************************************************)

\* C1: when assemble returns, the length of the returned byte sequence is
\* 4 times the number of lines that are not blank, not comments and not
\* 'lbl' lines.
FixedWidth ==
    pc = "returned" =>
        Len(result.val) = 4 * Cardinality({k \in 1..Len(source) : IsInstr(source[k])})

FixedWidthWitness ==
    /\ pc = "returned"
    /\ source = ProgMisc
    /\ Len(result.val) = 20

\* C2: 'jump end', three addi, 'lbl end' assembles at every word-aligned
\* base and the low 24 bits of the first word are 3.
JumpEndIsThree ==
    (source = ProgJumpEnd /\ base % 4 = 0) =>
        /\ pc # "raised"
        /\ pc = "returned" => Low24(result.val, 1) = 3

\* the assembly of that source at the word-aligned base 0x2000004 is
\* aborted in pass 1, on its first line, by the range check of rel24
JumpEndAborted ==
    /\ source = ProgJumpEnd
    /\ base = 33554436
    /\ pc = "raised"
    /\ pass = 1
    /\ i = 1
    /\ result = Raise("AssertionError", "Too many signed bits")

\* C3: in the returned bytes, a branch to a label declared on an earlier
\* line carries in its low 16 bits the 16-bit two's complement of
\* (label address - branch address) / 4; the loop example at base 0 returns
\* 3 words and the low 16 bits of the third decode to -1.
BackwardBranch ==
    /\ pc = "returned" =>
        \A k \in 1..Len(source) :
            (/\ HasOperands(source[k])
             /\ Mnemonic(source[k]) \in Branches
             /\ \E j \in 1..(k - 1) :
                    IsLbl(source[j]) /\ Operands(source[j])[1] = Target(source[k]))
            => Low16(result.val, InstrBefore(source, k) + 1)
               = ((ExpectedLabels(source, base)[Target(source[k])]
                   - (base + 4 * InstrBefore(source, k))) \div 4) % 65536
    /\ (source = ProgLoop /\ base = 0) =>
        /\ pc # "raised"
        /\ pc = "returned" =>
            /\ Len(result.val) = 3 * 4
            /\ Signed16(Low16(result.val, 3)) = -1

BackwardBranchWitness ==
    /\ pc = "returned"
    /\ source = ProgLoop
    /\ base = 0

\* C4: a step that executes an 'lbl name' line binds an absent name to
\* base + length of code and changes nothing else, leaves everything
\* unchanged when the name is bound to that address, and fails with
\* LabelRedefinitionError without touching the binding when the name is
\* bound to another address; it never changes the code.
LblStep ==
    [][(pc = "running" /\ i <= Len(source) /\ IsLbl(source[i])) =>
        LET n == Operands(source[i])[1]
            a == base + Len(ctx.code)
        IN  /\ ctx' = ctx
            /\ n \notin DOMAIN Labels =>
                /\ pc' = "running"
                /\ heap' = [heap EXCEPT ![ctx.labels] = DictSet(Labels, n, a)]
            /\ (n \in DOMAIN Labels /\ Labels[n] = a) =>
                /\ pc' = "running"
                /\ heap' = heap
            /\ (n \in DOMAIN Labels /\ Labels[n] # a) =>
                /\ pc' = "raised"
                /\ result'.exc = "LabelRedefinitionError"
                /\ heap' = heap]_vars

\* an 'lbl name' line has failed on a name bound to another address, with
\* an AssertionError that carries no message
LblStepWitness ==
    /\ pc = "raised"
    /\ result = Raise("AssertionError", "")
    /\ IsLbl(source[i])
    /\ ctx.code # <<>>
    /\ Operands(source[i])[1] \in DOMAIN Labels
    /\ Labels[Operands(source[i])[1]] # base + Len(ctx.code)

\* C5: a register field accepts rN iff 0 <= N < 32, an unsigned n-bit field
\* accepts v iff 0 <= v < 2^n and contributes v, simm16 accepts v iff
\* -32768 <= v <= 32767 and contributes v mod 2^16; a rejection is the range
\* assertion, and an accepted contribution has no bit set outside its
\* declared width at its declared shift.
DeclWidth ==
    [f \in ProbeFields |->
        IF f \in RegFields \cup {"cmpop", "bitsel"} THEN 5
        ELSE IF f \in {"uimm16", "simm16"} THEN 16
        ELSE IF f = "opcode" THEN 6
        ELSE IF f \in {"jmpop", "twobits"} THEN 2
        ELSE 11]

DeclShift ==
    [f \in ProbeFields |->
        IF f = "rs" THEN 21
        ELSE IF f \in {"rd", "cmpop", "bitsel"} THEN 16
        ELSE IF f = "rt" THEN 11
        ELSE IF f = "opcode" THEN 26
        ELSE 0]

FieldRange ==
    fout # None =>
        LET w      == DeclWidth[fname]
            s      == DeclShift[fname]
            accept == IF fname = "simm16" THEN -32768 <= fval /\ fval <= 32767
                      ELSE 0 <= fval /\ fval < 2 ^ w
            value  == IF fname = "simm16" THEN fval % 65536 ELSE fval
        IN  /\ fout.ok <=> accept
            /\ ~fout.ok => fout.exc = "AssertionError"
            /\ fout.ok =>
                fout.val = {s + k : k \in {j \in 0..(w - 1) : (value \div (2 ^ j)) % 2 = 1}}

FieldRangeWitness ==
    /\ fname = "simm16"
    /\ fval = -32768
    /\ fout # None
    /\ fout.ok

\* C6: the result of a call of assemble, whatever calls came before it, is
\* the result of the same call as the first call of the process, and the
\* label table of the default argument stays empty.
FreshHeap == [o \in Objects |-> EmptyDict]

NoCarriedState ==
    /\ heap[DefaultLabels] = EmptyDict
    /\ pc \in {"returned", "raised"} => result = assemble(FreshHeap, source, base)

NoCarriedStateWitness ==
    /\ earlier
    /\ pc = "returned"
    /\ source = ProgLoop
    /\ base = 4

\* C7 as stated: in every context state, whatever the base, the address is
\* a multiple of 4 after any emission and so is every stored label address.
AlwaysAligned ==
    pass >= 1 =>
        /\ address(ctx) = base + Len(ctx.code)
        /\ ctx.code # <<>> => address(ctx) % 4 = 0
        /\ \A n \in DOMAIN Labels : Labels[n] % 4 = 0

\* C7 amended: in every context state, whatever the base, the address is
\* base + length(code) and is congruent to the base modulo 4, and so is
\* every stored label address; they are multiples of 4 when the base is.
AlignedToBase ==
    pass >= 1 =>
        /\ address(ctx) = base + Len(ctx.code)
        /\ (address(ctx) - base) % 4 = 0
        /\ \A n \in DOMAIN Labels : (Labels[n] - base) % 4 = 0
        /\ base % 4 = 0 =>
            /\ address(ctx) % 4 = 0
            /\ \A n \in DOMAIN Labels : Labels[n] % 4 = 0

AlignedToBaseWitness ==
    /\ pass = 2
    /\ base = 1
    /\ ctx.code # <<>>
    /\ DOMAIN Labels # {}

\* C8: in pass 2 every label looked up by a rel24 or rel16 field is in the
\* label table, and a source that returns bytes declares every label it
\* references.
Pass2Resolved ==
    /\ (pc = "running" /\ pass = 2 /\ i <= Len(source) /\ IsRel(source[i]))
        => Target(source[i]) \in DOMAIN Labels
    /\ pc = "returned" =>
        \A k \in 1..Len(source) :
            IsRel(source[k]) => Target(source[k]) \in DeclaredNames(source)

\* C9: when pass 1 is over every declared label is bound to
\* base + 4 * (number of instruction lines before its first 'lbl' line);
\* all through pass 2 the table is that same table, and every 'lbl' line of
\* pass 2 finds its label bound to the current address, so none fails.
LabelsFinal ==
    /\ (pass = 1 /\ pc = "running" /\ i > Len(source))
        => Labels = ExpectedLabels(source, base)
    /\ (pass = 2 /\ pc \in {"running", "returned"})
        => Labels = ExpectedLabels(source, base)
    /\ (pass = 2 /\ pc = "running" /\ i <= Len(source) /\ IsLbl(source[i]))
        => /\ Operands(source[i])[1] \in DOMAIN Labels
           /\ Labels[Operands(source[i])[1]] = base + Len(ctx.code)
    /\ (pass = 2 /\ pc = "raised") => ~IsLbl(source[i])

LabelsFinalWitness ==
    /\ pass = 2
    /\ pc = "returned"
    /\ source = ProgTwoLabels
    /\ base = 4

\* C10: a source of well-formed lines that declares each label at one
\* address and whose relative offsets are all aligned and in range with
\* respect to the final label addresses is assembled successfully, at every
\* base: no check on a pass-1 placeholder aborts it.
FinalRelOK(src, b, k) ==
    /\ Target(src[k]) \in DeclaredNames(src)
    /\ LET rel == ExpectedLabels(src, b)[Target(src[k])] - (b + 4 * InstrBefore(src, k))
           w   == RelWidth(src[k])
       IN  /\ rel % 4 = 0
           /\ -(2 ^ (w - 1)) <= rel \div 4
           /\ rel \div 4 < 2 ^ (w - 1)

WellFormed(src) ==
    /\ \A k \in 1..Len(src) : src[k] \in Alphabet
    /\ \A k \in 1..Len(src) :
        IsLbl(src[k]) =>
            InstrBefore(src, k) = InstrBefore(src, FirstLbl(src, Operands(src[k])[1]))

Pass1NeverAborts ==
    (/\ pass >= 1
     /\ WellFormed(source)
     /\ \A k \in 1..Len(source) : IsRel(source[k]) => FinalRelOK(source, base, k))
    => pc # "raised"

====
